---- MODULE Spec2Model ----
(***************************************************************************)
(* Model of Live.py: the script that downloads daddyliveSchedule.json,     *)
(* filters its events by category and writes config/dynamic_channels.json. *)
(*                                                                         *)
(* Text is modelled by TLA+ strings, taken apart character by character    *)
(* with Len, SubSeq and \o, so that the regular expressions and the string *)
(* methods of the script are computed as Python computes them on ASCII     *)
(* text.  The schedule document is read as main() reads it: one day, one   *)
(* category, one event at a time.                                          *)
(***************************************************************************)
EXTENDS Integers, Sequences, FiniteSets, TLC

(***************************************************************************)
(* Characters and the str methods the script uses                          *)
(***************************************************************************)
UpperAlpha == "ABCDEFGHIJKLMNOPQRSTUVWXYZ"
LowerAlpha == "abcdefghijklmnopqrstuvwxyz"
Digits == "0123456789"

Ch(s, i) == SubSeq(s, i, i)

CharsOf(s) == { Ch(s, i) : i \in 1..Len(s) }

UpperSet == CharsOf(UpperAlpha)
LowerSet == CharsOf(LowerAlpha)
DigitSet == CharsOf(Digits)

\* str.lower() on one character
LowerTable == [c \in UpperSet |->
                 Ch(LowerAlpha, CHOOSE i \in 1..26 : Ch(UpperAlpha, i) = c)]
UpperTable == [c \in LowerSet |->
                 Ch(UpperAlpha, CHOOSE i \in 1..26 : Ch(LowerAlpha, i) = c)]
LowerCh(c) == IF c \in UpperSet THEN LowerTable[c] ELSE c
UpperCh(c) == IF c \in LowerSet THEN UpperTable[c] ELSE c

IsDigit(c) == c \in DigitSet
IsAlpha(c) == c \in UpperSet \/ c \in LowerSet
\* \w of the re module (ASCII part)
IsWordCh(c) == IsAlpha(c) \/ IsDigit(c) \/ c = "_"
\* \s of the re module, and the characters str.strip() and str.split() drop
IsSpace(c) == c \in {" ", "\t", "\n", "\r"}

RECURSIVE Lower(_)
Lower(s) == IF s = "" THEN "" ELSE LowerCh(Ch(s, 1)) \o Lower(SubSeq(s, 2, Len(s)))

\* s[i:i+len(p)] == p
MatchAt(s, p, i) == /\ i >= 1
                    /\ i + Len(p) - 1 <= Len(s)
                    /\ SubSeq(s, i, i + Len(p) - 1) = p

\* p in s
Contains(s, p) == \E i \in 1..(Len(s) + 1) : MatchAt(s, p, i)

RECURSIVE LStrip(_)
LStrip(s) == IF s # "" /\ IsSpace(Ch(s, 1)) THEN LStrip(SubSeq(s, 2, Len(s))) ELSE s
RECURSIVE RStrip(_)
RStrip(s) == IF s # "" /\ IsSpace(Ch(s, Len(s)))
               THEN RStrip(SubSeq(s, 1, Len(s) - 1)) ELSE s
\* str.strip()
Strip(s) == RStrip(LStrip(s))

RECURSIVE StripCh(_, _)
\* str.strip(c) for a single character c
StripCh(s, c) ==
  IF s # "" /\ Ch(s, 1) = c THEN StripCh(SubSeq(s, 2, Len(s)), c)
  ELSE IF s # "" /\ Ch(s, Len(s)) = c THEN StripCh(SubSeq(s, 1, Len(s) - 1), c)
  ELSE s

RECURSIVE Replace(_, _, _)
\* str.replace(old, new), old non-empty
Replace(s, old, new) ==
  IF s = "" THEN ""
  ELSE IF MatchAt(s, old, 1)
         THEN new \o Replace(SubSeq(s, Len(old) + 1, Len(s)), old, new)
         ELSE Ch(s, 1) \o Replace(SubSeq(s, 2, Len(s)), old, new)

RECURSIVE SplitOn(_, _)
\* str.split(sep) for a single character sep: the sequence of the fields
SplitOn(s, sep) ==
  IF \E i \in 1..Len(s) : Ch(s, i) = sep
    THEN LET i == CHOOSE k \in 1..Len(s) :
                    Ch(s, k) = sep /\ \A j \in 1..(k - 1) : Ch(s, j) # sep
         IN <<SubSeq(s, 1, i - 1)>> \o SplitOn(SubSeq(s, i + 1, Len(s)), sep)
    ELSE <<s>>

RECURSIVE SplitWs(_)
\* str.split() with no argument: the maximal runs of non-whitespace
SplitWs(s) ==
  LET t == LStrip(s) IN
  IF t = "" THEN <<>>
  ELSE LET n == IF \E i \in 1..Len(t) : IsSpace(Ch(t, i))
                  THEN (CHOOSE k \in 1..Len(t) :
                          IsSpace(Ch(t, k)) /\ \A j \in 1..(k - 1) : ~IsSpace(Ch(t, j))) - 1
                  ELSE Len(t)
       IN <<SubSeq(t, 1, n)>> \o SplitWs(SubSeq(t, n + 1, Len(t)))

RECURSIVE Join(_, _)
\* sep.join(words)
Join(words, sep) ==
  IF words = <<>> THEN ""
  ELSE IF Len(words) = 1 THEN words[1]
  ELSE words[1] \o sep \o Join(Tail(words), sep)

\* \b between character i-1 and character i of s (i in 1..Len(s)+1)
WordBoundary(s, i) ==
  LET before == i > 1 /\ IsWordCh(Ch(s, i - 1))
      after == i <= Len(s) /\ IsWordCh(Ch(s, i))
  IN before # after

\* re.search(r'\bw\b', s, re.IGNORECASE) for a literal w given in lower case
SearchWord(s, w) ==
  LET ls == Lower(s) IN
  \E i \in 1..Len(s) :
     /\ MatchAt(ls, w, i)
     /\ WordBoundary(s, i)
     /\ WordBoundary(s, i + Len(w))

\* str.title(): first letter of every run of letters upper, the others lower
RECURSIVE TitleFrom(_, _)
TitleFrom(s, prevCased) ==
  IF s = "" THEN ""
  ELSE LET c == Ch(s, 1) IN
       (IF IsAlpha(c) THEN (IF prevCased THEN LowerCh(c) ELSE UpperCh(c)) ELSE c)
         \o TitleFrom(SubSeq(s, 2, Len(s)), IsAlpha(c))
Title(s) == TitleFrom(s, FALSE)

RECURSIVE ParseDigits(_, _)
ParseDigits(s, acc) ==
  IF s = "" THEN acc
  ELSE ParseDigits(SubSeq(s, 2, Len(s)),
                   10 * acc + ((CHOOSE i \in 1..10 : Ch(Digits, i) = Ch(s, 1)) - 1))

\* int(s) succeeds: optional surrounding whitespace, optional sign, decimal
\* digits (digit-group underscores are not modelled)
IntBody(s) == LET t == Strip(s) IN
  IF t # "" /\ Ch(t, 1) \in {"+", "-"} THEN SubSeq(t, 2, Len(t)) ELSE t
IsInt(s) == LET b == IntBody(s) IN b # "" /\ \A i \in 1..Len(b) : IsDigit(Ch(b, i))
\* int(s) where it succeeds
ToInt(s) == LET t == Strip(s) IN
  IF Ch(t, 1) = "-" THEN 0 - ParseDigits(IntBody(s), 0) ELSE ParseDigits(IntBody(s), 0)

RECURSIVE DigitsOf(_)
DigitsOf(n) == IF n < 10 THEN Ch(Digits, n + 1)
               ELSE DigitsOf(n \div 10) \o Ch(Digits, (n % 10) + 1)
RECURSIVE ZeroPad(_, _)
\* the %02d / %04d fields of strftime and isoformat, n >= 0
ZeroPad(s, width) == IF Len(s) >= width THEN s ELSE ZeroPad("0" \o s, width)
Pad2(n) == ZeroPad(DigitsOf(n), 2)
Pad4(n) == ZeroPad(DigitsOf(n), 4)

(***************************************************************************)
(* Module constants of Live.py                                             *)
(***************************************************************************)
LOGO_BASE == "https://raw.githubusercontent.com/qwertyuiop8899/logo/main"

EXCLUDE_KEYWORDS_CHANNEL == <<"college", "youth">>

BASE_CATEGORIES ==
  { "Italy - Serie A", "Italy - Serie B", "Italy - Serie C",
    "UEFA Champions League", "UEFA Europa League", "Conference League",
    "Coppa Italia", "Tennis", "motor sports", "motorsports" }

COPPA_LOGOS ==
  [ c \in { "UEFA Champions League", "UEFA Europa League",
            "Conference League", "Coppa Italia" } |->
      CASE c = "UEFA Champions League" -> "UEFA_Champions_League.png"
        [] c = "UEFA Europa League" -> "UEFA_Europa_League.png"
        [] c = "Conference League" -> "Conference_League.png"
        [] c = "Coppa Italia" -> "Coppa_Italia.png" ]

MonthNames == << "January", "February", "March", "April", "May", "June", "July",
                 "August", "September", "October", "November", "December" >>
\* MONTHS: month name -> 1..12
MONTHS == [ m \in { MonthNames[i] : i \in 1..12 } |->
              CHOOSE i \in 1..12 : MonthNames[i] = m ]

\* the alternatives of TEAM_PREFIXES_REGEX, in lower case (the regex ignores case)
TEAM_PREFIXES == << "a.s.", "as", "a.c.", "ac", "ssc", "s.s.c.", "ss",
                    "u.s.", "us", "u.c.", "uc", "f.c.", "fc" >>
TEAM_CLEAN_WORDS == { "calcio" }
TEAM_SPECIAL ==
  [ k \in { "internazionale", "inter", "juventus", "as roma", "a.s. roma", "roma",
            "ssc napoli", "s.s.c. napoli", "napoli", "ss lazio" } |->
      CASE k \in { "internazionale", "inter" } -> "inter"
        [] k = "juventus" -> "juventus"
        [] k \in { "as roma", "a.s. roma", "roma" } -> "roma"
        [] k \in { "ssc napoli", "s.s.c. napoli", "napoli" } -> "napoli"
        [] k = "ss lazio" -> "lazio" ]

SOCCER_CONTAINER_NAMES == { "soccer" }

(***************************************************************************)
(* JSON values of the schedule document.  A value the script reads with    *)
(* dict.get is a record with a "type" field; Absent is a missing key.      *)
(***************************************************************************)
Str(s) == [type |-> "str", val |-> s]
Null == [type |-> "null"]
Absent == [type |-> "absent"]
List(items) == [type |-> "list", items |-> items]
Channel(id, name) == [type |-> "dict", channel_id |-> id, channel_name |-> name]
Game(event, time, channels) ==
  [type |-> "dict", event |-> event, time |-> time, channels |-> channels]

\* bool(v) of a value read from the document
Truthy(v) == \/ v.type = "str" /\ v.val # ""
             \/ v.type = "int" /\ v.val # 0
             \/ v.type = "list" /\ v.items # <<>>
             \/ v.type = "dict"

(***************************************************************************)
(* Dates                                                                   *)
(***************************************************************************)
MINYEAR == 1
MAXYEAR == 9999

IsLeap(y) == (y % 4 = 0 /\ y % 100 # 0) \/ y % 400 = 0
DaysInMonth(y, m) == IF m = 2 THEN (IF IsLeap(y) THEN 29 ELSE 28)
                     ELSE IF m \in {4, 6, 9, 11} THEN 30 ELSE 31

\* datetime.datetime(year, month, day, hour, minute) does not raise ValueError
ValidDateTime(year, month, daynum, hour, minute) ==
  /\ MINYEAR <= year /\ year <= MAXYEAR
  /\ 1 <= month /\ month <= 12
  /\ 1 <= daynum /\ daynum <= DaysInMonth(year, month)
  /\ 0 <= hour /\ hour <= 23
  /\ 0 <= minute /\ minute <= 59

DateTime(y, mo, d, h, mi) == [year |-> y, month |-> mo, day |-> d, hour |-> h, minute |-> mi]

\* dt + one hour / dt - one hour
PlusHour(dt) ==
  IF dt.hour < 23 THEN [dt EXCEPT !.hour = dt.hour + 1]
  ELSE IF dt.day < DaysInMonth(dt.year, dt.month)
         THEN [dt EXCEPT !.hour = 0, !.day = dt.day + 1]
  ELSE IF dt.month < 12 THEN [dt EXCEPT !.hour = 0, !.day = 1, !.month = dt.month + 1]
  ELSE [dt EXCEPT !.hour = 0, !.day = 1, !.month = 1, !.year = dt.year + 1]
MinusHour(dt) ==
  IF dt.hour > 0 THEN [dt EXCEPT !.hour = dt.hour - 1]
  ELSE IF dt.day > 1 THEN [dt EXCEPT !.hour = 23, !.day = dt.day - 1]
  ELSE IF dt.month > 1
         THEN [dt EXCEPT !.hour = 23, !.month = dt.month - 1,
                         !.day = DaysInMonth(dt.year, dt.month - 1)]
  ELSE [dt EXCEPT !.hour = 23, !.day = 31, !.month = 12, !.year = dt.year - 1]

\* Summer time of Europe/London and Europe/Rome, by the rule in force for the
\* years of the schedule (since 1996): from 01:00 UTC on the last Sunday of
\* March to 01:00 UTC on the last Sunday of October.
LastSundayOfMarch(y) == 31 - (((5 * y) \div 4 + 4) % 7)
LastSundayOfOctober(y) == 31 - (((5 * y) \div 4 + 1) % 7)
\* <<month, day, hour>> of a is not before that of b
NotBefore(a, b) == \/ a[1] > b[1]
                   \/ a[1] = b[1] /\ a[2] > b[2]
                   \/ a[1] = b[1] /\ a[2] = b[2] /\ a[3] >= b[3]
SummerTimeUTC(dt) ==
  /\ NotBefore(<<dt.month, dt.day, dt.hour>>, <<3, LastSundayOfMarch(dt.year), 1>>)
  /\ ~NotBefore(<<dt.month, dt.day, dt.hour>>, <<10, LastSundayOfOctober(dt.year), 1>>)

\* TZ_LONDON.localize(naive).astimezone(pytz.UTC).  localize() takes is_dst=False,
\* so the skipped hour 01:00-01:59 in March and the repeated hour 01:00-01:59
\* in October are read as GMT.
LondonToUTC(naive) ==
  IF /\ NotBefore(<<naive.month, naive.day, naive.hour>>,
                  <<3, LastSundayOfMarch(naive.year), 2>>)
     /\ ~NotBefore(<<naive.month, naive.day, naive.hour>>,
                   <<10, LastSundayOfOctober(naive.year), 1>>)
    THEN MinusHour(naive)
    ELSE naive

\* start_dt_utc.astimezone(TZ_ROME)
UTCToRome(dt) == IF SummerTimeUTC(dt) THEN PlusHour(PlusHour(dt)) ELSE PlusHour(dt)

(***************************************************************************)
(* The functions of Live.py                                                *)
(***************************************************************************)
RECURSIVE RemoveOrdinal(_, _, _)
\* re.sub(rf'(\d+){suf}', r'\1', day): drops suf where it follows a digit
RemoveOrdinal(day, suf, i) ==
  IF i > Len(day) THEN ""
  ELSE IF i > 1 /\ IsDigit(Ch(day, i - 1)) /\ MatchAt(day, suf, i)
         THEN RemoveOrdinal(day, suf, i + Len(suf))
         ELSE Ch(day, i) \o RemoveOrdinal(day, suf, i + 1)

clean_day_string(day) ==
  LET d0 == Replace(day, " - Schedule Time UK GMT", "")
      d1 == RemoveOrdinal(d0, "st", 1)
      d2 == RemoveOrdinal(d1, "nd", 1)
      d3 == RemoveOrdinal(d2, "rd", 1)
      d4 == RemoveOrdinal(d3, "th", 1)
  IN Strip(d4)

\* int(s) under "try: ... except: pass": 0 stands for None, the two being
\* the values that "x or default" replaces
IntOrNone(s) == IF IsInt(s) THEN ToInt(s) ELSE 0

\* month, daynum, year after lines 113-125, parts being the value of line 111:
\* 0 where the code leaves None
DayFieldsOf(parts) ==
  IF Len(parts) >= 4 /\ parts[2] \in DOMAIN MONTHS
    THEN [month |-> MONTHS[parts[2]], daynum |-> IntOrNone(parts[3]),
          year |-> IntOrNone(parts[4])]
  ELSE IF Len(parts) >= 4 /\ parts[3] \in DOMAIN MONTHS
    THEN [month |-> MONTHS[parts[3]], daynum |-> IntOrNone(parts[2]),
          year |-> IntOrNone(parts[4])]
  ELSE [month |-> 0, daynum |-> 0, year |-> 0]
DayFields(day_str) == DayFieldsOf(SplitWs(clean_day_string(day_str)))

\* hour, minute = map(int, fields), line 131, under the try of lines 130-133
TimeFieldsOf(fields) ==
  IF Len(fields) = 2 /\ IsInt(fields[1]) /\ IsInt(fields[2])
    THEN [hour |-> ToInt(fields[1]), minute |-> ToInt(fields[2])]
    ELSE [hour |-> 0, minute |-> 0]
\* time_uk is the value of game.get('time'); one that is no string has no split()
TimeFields(time_uk) ==
  IF time_uk.type = "str" THEN TimeFieldsOf(SplitOn(time_uk.val, ":"))
  ELSE [hour |-> 0, minute |-> 0]

\* a variant of Defaulted that takes the year from the clock whatever the label says
DefaultedYearFromClock(d, t, now) ==
  DateTime(now.year,
           IF d.month # 0 THEN d.month ELSE now.month,
           IF d.daynum # 0 THEN d.daynum ELSE now.day,
           t.hour, t.minute)

\* lines 126-129 and the arguments of datetime.datetime(...) at line 134
Defaulted(d, t, now) ==
  DateTime(IF d.year # 0 THEN d.year ELSE now.year,
           IF d.month # 0 THEN d.month ELSE now.month,
           IF d.daynum # 0 THEN d.daynum ELSE now.day,
           t.hour, t.minute)
NaiveFields(day_str, time_uk, now) ==
  Defaulted(DayFields(day_str), TimeFields(time_uk), now)

ValidNaive(n) == ValidDateTime(n.year, n.month, n.day, n.hour, n.minute)

\* parse_event_datetime raises ValueError (line 134)
parse_event_datetime_raises(day_str, time_uk, now) ==
  ~ValidNaive(NaiveFields(day_str, time_uk, now))

\* lines 135-138; has_pytz is "pytz and TZ_LONDON"
Localized(naive, has_pytz) == IF has_pytz THEN LondonToUTC(naive) ELSE naive

\* parse_event_datetime where it returns
parse_event_datetime(day_str, time_uk, now, has_pytz) ==
  Localized(NaiveFields(day_str, time_uk, now), has_pytz)

RECURSIVE SkipSpaces(_, _)
\* the position after the run of whitespace that starts at i
SkipSpaces(s, i) == IF i <= Len(s) /\ IsSpace(Ch(s, i)) THEN SkipSpaces(s, i + 1) ELSE i

\* TEAM_PREFIXES_REGEX.sub('', team): a leading prefix and the whitespace after it
PrefixHits(team, lt) ==
  { k \in 1..Len(TEAM_PREFIXES) :
      /\ MatchAt(lt, TEAM_PREFIXES[k], 1)
      /\ Len(team) > Len(TEAM_PREFIXES[k])
      /\ IsSpace(Ch(team, Len(TEAM_PREFIXES[k]) + 1)) }
DropPrefix(team, hits) ==
  IF hits = {} THEN team
  ELSE SubSeq(team,
              SkipSpaces(team, Len(TEAM_PREFIXES[CHOOSE h \in hits : \A g \in hits : h <= g]) + 1),
              Len(team))
RemoveTeamPrefix(team) == DropPrefix(team, PrefixHits(team, Lower(team)))

RECURSIVE FilterWords(_)
FilterWords(words) ==
  IF words = <<>> THEN <<>>
  ELSE (IF Lower(Head(words)) \in TEAM_CLEAN_WORDS THEN <<>> ELSE <<Head(words)>>)
         \o FilterWords(Tail(words))

RECURSIVE ReSplitWs(_, _, _)
\* re.split(r'\s+', s): like str.split(), but keeping empty first and last fields
ReSplitWs(s, i, start) ==
  IF i > Len(s) THEN <<SubSeq(s, start, Len(s))>>
  ELSE IF IsSpace(Ch(s, i))
         THEN <<SubSeq(s, start, i - 1)>>
                \o ReSplitWs(s, SkipSpaces(s, i), SkipSpaces(s, i))
         ELSE ReSplitWs(s, i + 1, start)

strip_prefixes(team) ==
  Strip(Join(FilterWords(ReSplitWs(RemoveTeamPrefix(Strip(team)), 1, 1)), " "))

Special(key) == IF key \in DOMAIN TEAM_SPECIAL THEN TEAM_SPECIAL[key] ELSE key
normalize_team(team) == Special(Lower(strip_prefixes(team)))

RECURSIVE MatchSplit(_, _, _)
\* MATCH_SPLIT_REGEX.split(event_name), the regex being \bvs\b| -  (ignoring case)
MatchSplit(s, i, start) ==
  IF i > Len(s) THEN <<SubSeq(s, start, Len(s))>>
  ELSE IF /\ i + 1 <= Len(s) /\ Lower(SubSeq(s, i, i + 1)) = "vs"
          /\ WordBoundary(s, i) /\ WordBoundary(s, i + 2)
         THEN <<SubSeq(s, start, i - 1)>> \o MatchSplit(s, i + 2, i + 2)
  ELSE IF MatchAt(s, " - ", i)
         THEN <<SubSeq(s, start, i - 1)>> \o MatchSplit(s, i + 3, i + 3)
  ELSE MatchSplit(s, i + 1, start)

\* extract_teams: <<t1, t2>>, or <<"", "">> for (None, None), which
\* "if t1 and t2" treats like two empty names
FirstTwo(parts) ==
  IF Len(parts) >= 2 THEN <<Strip(parts[1]), Strip(parts[2])>> ELSE <<"", "">>
extract_teams(event_name) == FirstTwo(MatchSplit(event_name, 1, 1))

\* lines 171-175 of build_logo, t being (t1, t2): the URL, or "" when the
\* function falls through to its last line
TeamLogo(t) ==
  IF t[1] # "" /\ t[2] # ""
    THEN LOGO_BASE \o "/"
           \o Replace(Title(normalize_team(t[1])) \o "_vs_"
                        \o Title(normalize_team(t[2])) \o ".png", " ", "_")
    ELSE ""

IsMotoGP(raw_event) == SearchWord(raw_event, "motogp")
IsF1(raw_event) == SearchWord(raw_event, "f1") \/ SearchWord(raw_event, "formula 1")

\* build_logo: the URL, or "" for None ("logo or None" makes the two alike)
build_logo(category_src, raw_event) ==
  IF category_src \in DOMAIN COPPA_LOGOS
    THEN LOGO_BASE \o "/" \o COPPA_LOGOS[category_src]
  ELSE IF category_src \in {"motor sports", "motorsports"}
    THEN (IF IsMotoGP(raw_event) THEN LOGO_BASE \o "/MotoGP.png"
          ELSE IF IsF1(raw_event) THEN LOGO_BASE \o "/F1.png"
          ELSE "")
  ELSE IF category_src = "Tennis" THEN LOGO_BASE \o "/Tennis.png"
  ELSE IF category_src \in {"Italy - Serie A", "Italy - Serie B"}
    THEN TeamLogo(extract_teams(raw_event))
  ELSE IF category_src = "Italy - Serie C" /\ Contains(Lower(raw_event), "salernitana")
    THEN LOGO_BASE \o "/Salernitana.png"
  ELSE ""

\* a variant of map_category that tests for F1 before MotoGP
map_category_f1_first(category_src, raw_event) ==
  IF category_src = "Italy - Serie A" THEN "seriea"
  ELSE IF category_src = "Italy - Serie B" THEN "serieb"
  ELSE IF category_src = "Italy - Serie C" THEN "seriec"
  ELSE IF category_src \in DOMAIN COPPA_LOGOS THEN "coppe"
  ELSE IF category_src = "Tennis" THEN "tennis"
  ELSE IF category_src \in {"motor sports", "motorsports"}
    THEN (IF IsF1(raw_event) THEN "f1"
          ELSE IF IsMotoGP(raw_event) THEN "motogp"
          ELSE "")
  ELSE ""

\* map_category: the output category, or "" for None
map_category(category_src, raw_event) ==
  IF category_src = "Italy - Serie A" THEN "seriea"
  ELSE IF category_src = "Italy - Serie B" THEN "serieb"
  ELSE IF category_src = "Italy - Serie C" THEN "seriec"
  ELSE IF category_src \in DOMAIN COPPA_LOGOS THEN "coppe"
  ELSE IF category_src = "Tennis" THEN "tennis"
  ELSE IF category_src \in {"motor sports", "motorsports"}
    THEN (IF IsMotoGP(raw_event) THEN "motogp"
          ELSE IF IsF1(raw_event) THEN "f1"
          ELSE "")
  ELSE ""

should_include_category(cat) == cat \in BASE_CATEGORIES

\* re.search(r'Italy\s*-\s*Serie X', s, re.IGNORECASE), serie being "serie x"
SearchItalySerie(s, serie) ==
  LET ls == Lower(s) IN
  \E i \in 1..Len(s) :
     /\ MatchAt(ls, "italy", i)
     /\ MatchAt(s, "-", SkipSpaces(s, i + 5))
     /\ MatchAt(ls, serie, SkipSpaces(s, SkipSpaces(s, i + 5) + 1))

\* INLINE_COMPETITION_PATTERNS, in order: does pattern k match?
InlinePatternMatches(k, event_name) ==
  CASE k = 1 -> SearchWord(event_name, "champions league")
    [] k = 2 -> SearchWord(event_name, "europa league")
    [] k = 3 -> SearchWord(event_name, "conference league")
    [] k = 4 -> SearchWord(event_name, "coppa italia")
    [] k = 5 -> SearchItalySerie(event_name, "serie a")
    [] k = 6 -> SearchItalySerie(event_name, "serie b")
    [] k = 7 -> SearchItalySerie(event_name, "serie c")
InlineLabels == << "UEFA Champions League", "UEFA Europa League", "Conference League",
                   "Coppa Italia", "Italy - Serie A", "Italy - Serie B", "Italy - Serie C" >>

\* a variant of FirstLabel in which the last pattern that matches wins
LastLabel(hits) ==
  IF hits = {} THEN "" ELSE InlineLabels[CHOOSE h \in hits : \A g \in hits : h >= g]

\* lines 209-212: the label of the first pattern that matches, "" for None
FirstLabel(hits) ==
  IF hits = {} THEN "" ELSE InlineLabels[CHOOSE h \in hits : \A g \in hits : h <= g]
\* detect_inline_competition: the label of the first pattern that matches, or ""
detect_inline_competition(event_name) ==
  FirstLabel({ k \in 1..Len(InlineLabels) : InlinePatternMatches(k, event_name) })

\* a variant of should_include_channel_text that tests the first keyword only
exclude_first_keyword_only(text) ==
  ~Contains(Lower(text), EXCLUDE_KEYWORDS_CHANNEL[1])

should_include_channel_text(text) ==
  LET tl == Lower(text) IN
  ~\E k \in 1..Len(EXCLUDE_KEYWORDS_CHANNEL) : Contains(tl, EXCLUDE_KEYWORDS_CHANNEL[k])

\* re.match(r'^\d{1,2}:\d{2}:', raw_event)
HasTimePrefix(raw_event) ==
  \E n \in 1..2 :
     /\ Len(raw_event) >= n + 4
     /\ \A j \in 1..n : IsDigit(Ch(raw_event, j))
     /\ Ch(raw_event, n + 1) = ":"
     /\ IsDigit(Ch(raw_event, n + 2)) /\ IsDigit(Ch(raw_event, n + 3))
     /\ Ch(raw_event, n + 4) = ":"

\* extract_event_title; split(':', 1)[1] is what follows the first colon
extract_event_title(raw_event) ==
  IF HasTimePrefix(raw_event)
    THEN LET i == CHOOSE k \in 1..Len(raw_event) :
                    Ch(raw_event, k) = ":" /\ \A j \in 1..(k - 1) : Ch(raw_event, j) # ":"
         IN Strip(SubSeq(raw_event, i + 1, Len(raw_event)))
    ELSE Strip(raw_event)

RECURSIVE Slug(_, _)
\* re.sub(r'[^a-z0-9]+', '-', s): every run of other characters becomes one hyphen
Slug(s, i) ==
  IF i > Len(s) THEN ""
  ELSE IF Ch(s, i) \in LowerSet \/ IsDigit(Ch(s, i)) THEN Ch(s, i) \o Slug(s, i + 1)
  ELSE IF i > 1 /\ ~(Ch(s, i - 1) \in LowerSet \/ IsDigit(Ch(s, i - 1))) THEN Slug(s, i + 1)
  ELSE "-" \o Slug(s, i + 1)

SLUG_MAX == 60

\* start_dt.strftime('%Y%m%d')
DateStamp(dt) == Pad4(dt.year) \o Pad2(dt.month) \o Pad2(dt.day)

\* slug[:60]
Cut(slug) == IF Len(slug) > SLUG_MAX THEN SubSeq(slug, 1, SLUG_MAX) ELSE slug

build_event_id(name, start_dt) ==
  Cut(StripCh(Slug(Lower(name), 1), "-")) \o "-" \o DateStamp(start_dt)

\* str(v) of a JSON string or a JSON number >= 0
Format(v) == IF v.type = "str" THEN v.val
             ELSE IF v.type = "int" THEN DigitsOf(v.val)
             ELSE ""

\* ch.get('channel_id') is truthy, for a dict ch
HasChannelId(ch) ==
  \/ ch.channel_id.type = "str" /\ ch.channel_id.val # ""
  \/ ch.channel_id.type = "int" /\ ch.channel_id.val # 0

\* get_stream_url: the URL, or "" for None
get_stream_url(channel_obj) ==
  IF channel_obj.type = "dict" /\ HasChannelId(channel_obj)
    THEN "https://thedaddy.click/stream/stream-" \o Format(channel_obj.channel_id) \o ".php"
    ELSE ""

RECURSIVE RemoveTags(_, _)
\* re.sub(r'<[^>]+>', '', c)
RemoveTags(c, i) ==
  IF i > Len(c) THEN ""
  ELSE IF /\ Ch(c, i) = "<"
          /\ \E j \in (i + 2)..Len(c) :
                Ch(c, j) = ">" /\ \A k \in (i + 1)..(j - 1) : Ch(c, k) # ">"
         THEN LET j == CHOOSE j \in (i + 2)..Len(c) :
                         Ch(c, j) = ">" /\ \A k \in (i + 1)..(j - 1) : Ch(c, k) # ">"
              IN RemoveTags(c, j + 1)
         ELSE Ch(c, i) \o RemoveTags(c, i + 1)

clean_category_key(raw) == Strip(RemoveTags(Replace(raw, "</span>", ""), 1))

(***************************************************************************)
(* One pass of the loop body of main(), lines 263-314                      *)
(***************************************************************************)
\* start_dt_utc.replace(microsecond=0).isoformat().replace('+00:00', 'Z')
EventStart(dt) ==
  Replace(Pad4(dt.year) \o "-" \o Pad2(dt.month) \o "-" \o Pad2(dt.day) \o "T"
            \o Pad2(dt.hour) \o ":" \o Pad2(dt.minute) \o ":00" \o "+00:00",
          "+00:00", "Z")

\* strftime('%d/%m %H:%M')
DayMonthTime(dt) ==
  Pad2(dt.day) \o "/" \o Pad2(dt.month) \o " " \o Pad2(dt.hour) \o ":" \o Pad2(dt.minute)

\* rome_str, lines 284-288
RomeStr(start, has_pytz) ==
  IF has_pytz THEN DayMonthTime(UTCToRome(start)) ELSE DayMonthTime(start) \o " UTC"

\* game.get('channels', []) cannot be iterated: TypeError at line 292
ChannelsRaise(game) == game.channels.type \in {"null", "int"}

\* the channel objects the for loop of line 292 visits; the characters of a
\* string are not dicts and are skipped like any other non-dict entry
ChannelItems(game) == IF game.channels.type = "list" THEN game.channels.items ELSE <<>>

\* ch_name, lines 296-298, for a channel that has a stream URL
ChannelName(ch) ==
  IF Truthy(ch.channel_name) THEN Format(ch.channel_name)
  ELSE "CH-" \o Format(ch.channel_id)

\* the text handed to should_include_channel_text at line 299
ChannelText(ch, title, effective) == ChannelName(ch) \o " " \o title \o " " \o effective

\* lines 293-300 for one channel: the stream appended, if any
StreamOf(ch, url, title, effective) ==
  IF url # "" /\ should_include_channel_text(ChannelText(ch, title, effective))
    THEN <<[url |-> url, title |-> ChannelName(ch)]>>
    ELSE <<>>
RECURSIVE BuildStreams(_, _, _)
\* streams_list after the loop of lines 292-300
BuildStreams(items, title, effective) ==
  IF items = <<>> THEN <<>>
  ELSE StreamOf(Head(items), get_stream_url(Head(items)), title, effective)
         \o BuildStreams(Tail(items), title, effective)

\* entry, lines 304-312; logo "" is JSON null
Entry(title, start, streams, logo, mapped, effective, has_pytz) ==
  [ id |-> build_event_id(title, start),
    name |-> title,
    streams |-> streams,
    logo |-> logo,
    category |-> mapped,
    description |-> effective \o " " \o RomeStr(start, has_pytz),
    eventStart |-> EventStart(start) ]

\* a variant of is_soccer_container that looks for the name inside the label
is_soccer_substring(category_src) ==
  \E n \in SOCCER_CONTAINER_NAMES : Contains(Lower(category_src), n)

\* is_soccer_container, line 260
is_soccer_container(category_src) == Lower(category_src) \in SOCCER_CONTAINER_NAMES

\* a variant of the Tennis filter that finds ATP and WTA inside longer words
TennisGateSubstring(effective, raw) ==
  effective = "Tennis" /\ ~(Contains(Lower(raw), "atp") \/ Contains(Lower(raw), "wta"))

\* the Tennis filter of line 277
TennisGate(effective, raw) ==
  effective = "Tennis" /\ ~(SearchWord(raw, "atp") \/ SearchWord(raw, "wta"))

\* game.get(...) or .strip() raises AttributeError at line 264
EventRaises(g) == \/ g.type # "dict"
                  \/ Truthy(g.event) /\ g.event.type # "str"

\* time_str = game.get('time', '00:00'), line 282
TimeOf(g) == IF g.time.type = "absent" THEN Str("00:00") ELSE g.time

Leave(l, how) == [l EXCEPT !.outcome = how]

\* lines 289-314: title, logo, streams and the append
Streams(l, g) ==
  IF ChannelsRaise(g) THEN Leave(l, "TypeError")
  ELSE IF l.streams_list = <<>> THEN Leave(l, "continue_302")
  ELSE Leave(l, "append_313")
Titled(l, g) ==
  Streams([l EXCEPT !.streams_list =
                      BuildStreams(ChannelItems(g), l.title, l.effective_category_src)], g)

\* lines 282-290
Dated(l, day_str, g, now, has_pytz) ==
  IF parse_event_datetime_raises(day_str, TimeOf(g), now) THEN Leave(l, "ValueError")
  ELSE Titled([l EXCEPT !.start_dt_utc = parse_event_datetime(day_str, TimeOf(g), now, has_pytz),
                        !.title = extract_event_title(l.raw_event),
                        !.logo = build_logo(l.effective_category_src, l.raw_event)], g)

\* lines 279-281
Mapped(l, day_str, g, now, has_pytz) ==
  IF l.mapped_cat = "" THEN Leave(l, "continue_281")
  ELSE Dated(l, day_str, g, now, has_pytz)

\* lines 268-279, detected being "" where line 269 was not run or found nothing
Classified(l, detected, day_str, category_src, g, now, has_pytz) ==
  IF is_soccer_container(category_src) /\ detected = "" THEN Leave(l, "continue_271")
  ELSE IF ~is_soccer_container(category_src) /\ ~should_include_category(category_src)
    THEN Leave(l, "continue_275")
  ELSE IF TennisGate(l.effective_category_src, l.raw_event) THEN Leave(l, "continue_278")
  ELSE Mapped([l EXCEPT !.mapped_cat = map_category(l.effective_category_src, l.raw_event)],
              day_str, g, now, has_pytz)

\* effective_category_src after lines 267-272
Effective(category_src, detected) == IF detected # "" THEN detected ELSE category_src

\* lines 265-272
Named(l, detected, day_str, category_src, g, now, has_pytz) ==
  IF l.raw_event = "" THEN Leave(l, "continue_266")
  ELSE Classified([l EXCEPT !.effective_category_src = Effective(category_src, detected)],
                  detected, day_str, category_src, g, now, has_pytz)

\* raw_event, line 264
RawEvent(g) == Strip(IF Truthy(g.event) THEN g.event.val ELSE "")

\* detected, line 269, "" for None and where the category is no container
Detected(category_src, g) ==
  IF is_soccer_container(category_src) /\ RawEvent(g) # ""
    THEN detect_inline_competition(RawEvent(g))
    ELSE ""

\* The loop body on game g, from the locals loc of the previous pass: the
\* locals after it.  outcome names the statement the pass left through: one of
\* the continue statements, the append of line 313, or the exception raised.
LoopBody(loc, day_str, category_src, g, now, has_pytz) ==
  IF EventRaises(g) THEN Leave(loc, "AttributeError")
  ELSE Named([loc EXCEPT !.raw_event = RawEvent(g)], Detected(category_src, g),
             day_str, category_src, g, now, has_pytz)

Exceptions == {"AttributeError", "ValueError", "TypeError", "OSError"}

(***************************************************************************)
(* The schedule documents the model runs main() on.  A JSON object is the  *)
(* sequence of its <<key, value>> pairs, in document order, which is the   *)
(* order dict.items() visits them in.                                      *)
(***************************************************************************)
Dict(pairs) == [type |-> "dict", pairs |-> pairs]
Num(n) == [type |-> "int", val |-> n]

ChSky == Channel(Str("101"), Str("Sky Sport Uno"))
ChYouth == Channel(Str("102"), Str("Youth TV"))
ChCollege == Channel(Str("103"), Str("COLLEGE Sports"))
ChNoId == Channel(Null, Str("Rai Sport"))
ChNoName == Channel(Num(55), Absent)

\* events that the loop body handles without raising
GoodGames ==
  << Game(Str("Juventus vs Inter"), Str("20:00"), List(<<ChSky>>)),
     Game(Str("20:45: AS Roma vs FC Internazionale"), Str("x"),
          List(<<ChCollege, ChNoName, ChNoId, Str("junk"), ChSky>>)),
     Game(Str("SSC Napoli - Milan"), Str("00:30"), List(<<ChYouth>>)),
     Game(Str("Juventus vs Inter"), Absent, Absent),
     Game(Str("Italy - Serie A: Juventus vs Napoli"), Str("20:00"), List(<<ChSky>>)),
     Game(Str("Coppa Italia: Italy - Serie B playoff"), Str("20:00"), List(<<ChSky>>)),
     Game(Str("UEFA Champions League: Inter vs Real"), Str("20:00"), List(<<ChSky>>)),
     Game(Str("ATP Rome: Sinner vs Alcaraz"), Str("13:00"), List(<<ChSky, ChNoName>>)),
     Game(Str("MotoGP: Qatar Grand Prix"), Str("20:00"), List(<<ChSky>>)),
     Game(Str("Formula 1: Monza"), Str("20:00"), List(<<ChSky>>)),
     Game(Str("F1 and MotoGP weekend preview"), Str("20:00"), List(<<ChSky>>)),
     Game(Str("ATPX F12 rally"), Str("20:00"), List(<<ChSky>>)),
     Game(Str("UEFA Youth League: Milan vs Real"), Str("20:00"), List(<<ChSky>>)),
     Game(Str("Salernitana"), Str("7:05"), Str("101")),
     Game(Null, Str("20:00"), List(<<ChSky>>)),
     Game(Str("   "), Str("20:00"), List(<<ChSky>>)) >>

RawCategoryLabels ==
  << "Italy - Serie A", "Tennis</span>", "motor sports", "<b>Soccer</b>",
     "Italy - Serie C", "Basketball", "tennis", "Serie A", "motorsports",
     "soccer", "Conference League", "Beach Soccer" >>

\* a day in which every category lists every one of the games
FullDay == Dict([ k \in 1..Len(RawCategoryLabels) |->
                    << RawCategoryLabels[k], List(GoodGames) >> ])

WinterDay == "Monday 1st January 2024 - Schedule Time UK GMT"
SummerNight == "Sunday August 24th 2025 - Schedule Time UK GMT"
NoDate == "Today's schedule"
NoSuchDay == "Saturday 31st February 2024 - Schedule Time UK GMT"

JuveInter(time, channels) == Game(Str("Juventus vs Inter"), time, channels)

Schedules ==
  { \* the empty schedule
    <<>>,
    \* every category with every game
    << <<WinterDay, FullDay>> >>,
    \* summer time, and the alternative layout of the day label
    << <<SummerNight,
         Dict(<< <<"Italy - Serie B",
                   List(<< JuveInter(Str("00:30"), List(<<ChSky>>)),
                           JuveInter(Str("23:59"), List(<<ChSky>>)) >>)>> >>)>> >>,
    \* several days; a day that is no object, a category that is no list,
    \* and a day label that holds no date
    << <<WinterDay,
         Dict(<< <<"motor sports", Null>>,
                 <<"Tennis", List(<< GoodGames[8] >>)>>,
                 <<"<span>Soccer</span>", List(<< GoodGames[1], GoodGames[5] >>)>> >>)>>,
       <<"Tuesday 2nd January 2024 - Schedule Time UK GMT", Str("no events")>>,
       <<NoDate,
         Dict(<< <<"Italy - Serie A", List(<< GoodGames[1], GoodGames[2] >>)>>,
                 <<"motorsports", List(<< GoodGames[11] >>)>> >>)>> >>,
    \* a day of the month that does not exist
    << <<NoSuchDay,
         Dict(<< <<"Basketball", List(<< GoodGames[1] >>)>>,
                 <<"Italy - Serie A", List(<< GoodGames[1], GoodGames[2] >>)>> >>)>> >>,
    \* an hour that does not exist
    << <<WinterDay,
         Dict(<< <<"Italy - Serie A",
                   List(<< GoodGames[1], JuveInter(Str("25:00"), List(<<ChSky>>)),
                           GoodGames[2] >>)>> >>)>> >>,
    \* "channels": null
    << <<WinterDay,
         Dict(<< <<"Tennis",
                   List(<< GoodGames[8], Game(Str("WTA Finals"), Str("20:00"), Null),
                           GoodGames[8] >>)>> >>)>> >>,
    \* an event that is no object, and a title that is no string
    << <<WinterDay,
         Dict(<< <<"Basketball", List(<< GoodGames[1], Str("Lakers vs Celtics") >>)>> >>)>> >>,
    << <<WinterDay,
         Dict(<< <<"Italy - Serie A",
                   List(<< Game(Num(7), Str("20:00"), List(<<ChSky>>)) >>)>> >>)>> >> }

\* datetime.datetime.utcnow() at line 126
UtcNows == { DateTime(2026, 11, 3, 9, 15), DateTime(2025, 1, 31, 9, 15) }

\* what config/dynamic_channels.json holds before the run, if a run wrote it
PreviousOutput ==
  << [ id |-> "old-event-20231231", name |-> "Old event",
       streams |-> <<[url |-> "https://thedaddy.click/stream/stream-1.php",
                      title |-> "Old"]>>,
       logo |-> "", category |-> "seriea",
       description |-> "Italy - Serie A 31/12 21:00",
       eventStart |-> "2023-12-31T20:00:00Z" ] >>

NoFile == [state |-> "absent", data |-> <<>>]
File(data) == [state |-> "written", data |-> data]
\* the file after open(..., 'w') succeeded and json.dump did not complete
TruncatedFile == [state |-> "truncated", data |-> <<>>]

(***************************************************************************)
(* State                                                                   *)
(***************************************************************************)
VARIABLES
  pc,                \* where main() is: "main", "loop", "write", or an end
  exception,         \* the exception that left main(), "" if none
  has_pytz,          \* "pytz and TZ_LONDON": the import of lines 45-52 succeeded
  dirExists,         \* the directory config/ exists
  outFile,           \* config/dynamic_channels.json
  printed,           \* what print() wrote, in order
  schedule,          \* line 235
  di, ci, ei,        \* how many days, categories of the day and events of the
                     \* category the three for loops have taken
  day,               \* the loop variable of line 252
  category_src,      \* line 256
  game,              \* the loop variable of line 262
  loc,               \* the other locals of the loop body
  dynamic_channels,  \* line 240
  total_events,      \* line 241
  included,          \* line 242
  debug_categories   \* line 250: the events listed under each cleaned label

vars == << pc, exception, has_pytz, dirExists, outFile, printed, schedule, di, ci, ei,
           day, category_src, game, loc, dynamic_channels, total_events, included,
           debug_categories >>

io == << dirExists, outFile >>
position == << di, ci, ei, day, category_src >>
body == << game, loc, dynamic_channels, total_events, included, debug_categories >>

Unbound ==
  [ raw_event |-> "", effective_category_src |-> "", mapped_cat |-> "",
    start_dt_utc |-> DateTime(0, 0, 0, 0, 0), title |-> "", logo |-> "",
    streams_list |-> <<>>, outcome |-> "" ]

Init ==
  /\ pc = "main"
  /\ exception = ""
  /\ has_pytz \in BOOLEAN
  /\ \/ dirExists = FALSE /\ outFile = NoFile
     \/ dirExists = TRUE /\ outFile = NoFile
     \/ dirExists = TRUE /\ outFile = File(PreviousOutput)
  /\ printed = <<>>
  /\ schedule = <<>>
  /\ di = 0 /\ ci = 0 /\ ei = 0
  /\ day = ""
  /\ category_src = ""
  /\ game = Null
  /\ loc = Unbound
  /\ dynamic_channels = <<>>
  /\ total_events = 0
  /\ included = 0
  /\ debug_categories = << >>

\* where the three for loops of lines 252, 255 and 262 stand
day_data == schedule[di][2]
DayOpen == di > 0 /\ day_data.type = "dict"
events == day_data.pairs[ci][2]
CategoryOpen == DayOpen /\ ci > 0 /\ events.type = "list"
EventsLeft == CategoryOpen /\ ei < Len(events.items)
CategoriesLeft == DayOpen /\ ~EventsLeft /\ ci < Len(day_data.pairs)
DaysLeft == ~EventsLeft /\ ~CategoriesLeft /\ di < Len(schedule)

(***************************************************************************)
(* main()                                                                  *)
(***************************************************************************)
\* a variant of FetchFails without the return of line 238: the run goes on with
\* an empty schedule
FetchFailsAndGoesOn ==
  /\ pc = "main"
  /\ \E e \in {"ConnectionError", "HTTPError", "JSONDecodeError"} :
        printed' = Append(printed, [msg |-> "Errore download schedule remoto", arg |-> e])
  /\ pc' = "loop"
  /\ UNCHANGED << exception, has_pytz, io, schedule, position, body >>

\* lines 234-238: load_schedule() raises (the request fails, the status is
\* not 2xx, or the body is not JSON); main prints and returns
FetchFails ==
  /\ pc = "main"
  /\ \E e \in {"ConnectionError", "HTTPError", "JSONDecodeError"} :
        printed' = Append(printed, [msg |-> "Errore download schedule remoto", arg |-> e])
  /\ pc' = "returned"
  /\ UNCHANGED << exception, has_pytz, io, schedule, position, body >>

\* lines 234-250: load_schedule() returns a JSON object
FetchDict ==
  /\ pc = "main"
  /\ \E doc \in Schedules : schedule' = doc
  /\ pc' = "loop"
  /\ UNCHANGED << exception, has_pytz, io, printed, position, body >>

\* lines 234-252: load_schedule() returns JSON that is no object (a list, say)
\* and schedule.items() raises
FetchOther ==
  /\ pc = "main"
  /\ pc' = "raised"
  /\ exception' = "AttributeError"
  /\ UNCHANGED << has_pytz, io, printed, schedule, position, body >>

\* lines 252-254: the next day of the schedule; a day that is no dict is skipped
NextDay ==
  /\ pc = "loop"
  /\ DaysLeft
  /\ di' = di + 1
  /\ day' = schedule[di + 1][1]
  /\ ci' = 0
  /\ ei' = 0
  /\ UNCHANGED << pc, exception, has_pytz, io, printed, schedule, category_src, body >>

\* line 258: debug_categories after a category label and its events were seen
Counted(seen, label, evs) ==
  (label :> ((IF label \in DOMAIN seen THEN seen[label] ELSE 0)
              + (IF evs.type = "list" THEN Len(evs.items) ELSE 0))) @@ seen

\* lines 255-261: the next category of the day; events that are no list are skipped
NextCategory ==
  /\ pc = "loop"
  /\ CategoriesLeft
  /\ ci' = ci + 1
  /\ category_src' = clean_category_key(day_data.pairs[ci + 1][1])
  /\ ei' = 0
  /\ debug_categories' = Counted(debug_categories,
                                 clean_category_key(day_data.pairs[ci + 1][1]),
                                 day_data.pairs[ci + 1][2])
  /\ UNCHANGED << pc, exception, has_pytz, io, printed, schedule, di, day,
                  game, loc, dynamic_channels, total_events, included >>

\* a variant of EndPass that puts the entry in front of the list
EndPassInFront(l) ==
  /\ loc' = l
  /\ IF l.outcome \in Exceptions
       THEN pc' = "raised" /\ exception' = l.outcome
       ELSE UNCHANGED << pc, exception >>
  /\ IF l.outcome = "append_313"
       THEN /\ dynamic_channels' =
                 << Entry(l.title, l.start_dt_utc, l.streams_list, l.logo,
                          l.mapped_cat, l.effective_category_src, has_pytz) >>
                   \o dynamic_channels
            /\ included' = included + 1
       ELSE UNCHANGED << dynamic_channels, included >>

\* how a pass that leaves the locals l ends: an exception leaves main(), the
\* append of lines 313-314 adds the entry, a continue changes nothing else
EndPass(l) ==
  /\ loc' = l
  /\ IF l.outcome \in Exceptions
       THEN pc' = "raised" /\ exception' = l.outcome
       ELSE UNCHANGED << pc, exception >>
  /\ IF l.outcome = "append_313"
       THEN /\ dynamic_channels' =
                 Append(dynamic_channels,
                        Entry(l.title, l.start_dt_utc, l.streams_list, l.logo,
                              l.mapped_cat, l.effective_category_src, has_pytz))
            /\ included' = included + 1
       ELSE UNCHANGED << dynamic_channels, included >>

\* lines 262-314: the next event of the category
ProcessEvent ==
  /\ pc = "loop"
  /\ EventsLeft
  /\ ei' = ei + 1
  /\ game' = events.items[ei + 1]
  /\ total_events' = total_events + 1
  /\ \E now \in UtcNows :
       EndPass(LoopBody(loc, day, category_src, events.items[ei + 1], now, has_pytz))
  /\ UNCHANGED << has_pytz, io, printed, schedule, di, ci, day, category_src,
                  debug_categories >>

\* line 316: the loops are over; os.makedirs(..., exist_ok=True) succeeds
MakeDirs ==
  /\ pc = "loop"
  /\ ~EventsLeft /\ ~CategoriesLeft /\ ~DaysLeft
  /\ pc' = "write"
  /\ dirExists' = TRUE
  /\ UNCHANGED << exception, has_pytz, outFile, printed, schedule, position, body >>

\* line 316: os.makedirs raises (the directory is missing and cannot be made)
MakeDirsFails ==
  /\ pc = "loop"
  /\ ~EventsLeft /\ ~CategoriesLeft /\ ~DaysLeft
  /\ ~dirExists
  /\ pc' = "raised"
  /\ exception' = "OSError"
  /\ UNCHANGED << has_pytz, io, printed, schedule, position, body >>

\* lines 317-324: the file is written; the counts and then the categories
\* seen, which print() lists in the order of their labels, are printed
WriteOutput ==
  /\ pc = "write"
  /\ outFile' = File(dynamic_channels)
  /\ printed' = Append(printed, [msg |-> "Creati", included |-> included,
                                 total |-> total_events,
                                 categories |-> debug_categories])
  /\ pc' = "returned"
  /\ UNCHANGED << exception, has_pytz, dirExists, schedule, position, body >>

\* lines 317-326: open() raises and the file is as it was, or json.dump raises
\* after open() truncated the file; the handler prints
WriteFails ==
  /\ pc = "write"
  /\ \/ UNCHANGED outFile
     \/ outFile' = TruncatedFile
  /\ printed' = Append(printed, [msg |-> "Errore scrittura output", arg |-> "OSError"])
  /\ pc' = "returned"
  /\ UNCHANGED << exception, has_pytz, dirExists, schedule, position, body >>

Next ==
  \/ FetchFails
  \/ FetchDict
  \/ FetchOther
  \/ NextDay
  \/ NextCategory
  \/ ProcessEvent
  \/ MakeDirs
  \/ MakeDirsFails
  \/ WriteOutput
  \/ WriteFails

Spec == Init /\ [][Next]_vars

(***************************************************************************)
(* Properties                                                              *)
(***************************************************************************)
\* the state shows a pass of the loop body: game is event ei of the open
\* category and loc holds the locals the pass left
Passed == CategoryOpen /\ ei > 0
\* the pass ran as far as line 265 and found a title
Titled265 == Passed /\ loc.outcome \notin {"AttributeError", "continue_266"}
\* the pass ended with the append of line 313
Appended == Passed /\ loc.outcome = "append_313"
LastEntry == dynamic_channels[Len(dynamic_channels)]
\* a step adds a record to the list, and the record it adds
Added == dynamic_channels' # dynamic_channels
NewEntry == dynamic_channels'[Len(dynamic_channels')]

C1_Whitelist ==
  { "Italy - Serie A", "Italy - Serie B", "Italy - Serie C", "UEFA Champions League",
    "UEFA Europa League", "Conference League", "Coppa Italia", "Tennis",
    "motor sports", "motorsports" }
C1_Unlisted(label) == Lower(label) # "soccer" /\ label \notin C1_Whitelist

\* C1: while the cleaned category label is neither "soccer" in any letter case
\* nor one of the ten whitelisted labels, no step adds a record to the output
\* list, whatever the event's title, time and channels are.
C1_UnlistedNeverRecorded ==
  [][C1_Unlisted(category_src') => dynamic_channels' = dynamic_channels]_vars

\* an event with a team title, a parsable time and a usable channel, and an
\* ATP event, were passed over under labels that are not listed
C1_Witness ==
  /\ Passed
  /\ category_src \in {"Beach Soccer", "tennis", "Basketball", "Serie A"}
  /\ C1_Unlisted(category_src)
  /\ game \in {GoodGames[5], GoodGames[8]}
  /\ loc.outcome = "continue_275"
  /\ dynamic_channels # <<>>

C2_Motor == {"motor sports", "motorsports"}
C2_MotoGPToken(title) == SearchWord(title, "motogp")
C2_F1Token(title) == SearchWord(title, "f1") \/ SearchWord(title, "formula 1")

\* C2, as the specification states it: a motor-sports record has category
\* 'f1' exactly when its title holds an F1 or Formula 1 token and 'motogp'
\* exactly when it holds a MotoGP token, and an event with neither is excluded.
C2_AsStated ==
  Appended /\ loc.effective_category_src \in C2_Motor =>
    /\ LastEntry.category = "f1" <=> C2_F1Token(loc.raw_event)
    /\ LastEntry.category = "motogp" <=> C2_MotoGPToken(loc.raw_event)

\* C2, amended: a step that adds a motor-sports record adds one whose category
\* is 'motogp' exactly when the title holds a MotoGP token, and 'f1' exactly
\* when it holds an F1 or Formula 1 token and no MotoGP token; no step adds a
\* record for a motor-sports event whose title holds neither token.
C2_MotoGPFirst ==
  [][Added /\ loc'.effective_category_src \in C2_Motor =>
       /\ C2_MotoGPToken(loc'.raw_event) \/ C2_F1Token(loc'.raw_event)
       /\ NewEntry.category = "motogp" <=> C2_MotoGPToken(loc'.raw_event)
       /\ NewEntry.category = "f1" <=>
            (C2_F1Token(loc'.raw_event) /\ ~C2_MotoGPToken(loc'.raw_event))]_vars

\* a title with both tokens reached the output
C2_Witness ==
  /\ Appended
  /\ loc.effective_category_src \in C2_Motor
  /\ C2_MotoGPToken(loc.raw_event) /\ C2_F1Token(loc.raw_event)
  /\ LastEntry.category = "motogp"

\* C3: no exception leaves main(): a date or a time out of range falls back
\* to a default or skips the event, and the run reaches the write step.
C3_DatesNeverFatal == ~(pc = "raised" /\ exception = "ValueError")

FetchFailed == printed # <<>> /\ printed[1].msg = "Errore download schedule remoto"

\* C4: the step in which the fetch fails logs the error and ends the run,
\* leaving the directory and the output file as they were and raising
\* nothing; no step follows it.
C4_FetchFailureLeavesFile ==
  [][/\ ~FetchFailed
     /\ FetchFailed' => /\ pc' = "returned"
                        /\ exception' = ""
                        /\ Len(printed') = 1
                        /\ dirExists' = dirExists
                        /\ outFile' = outFile]_vars

\* the fetch failed with an output file of an earlier run in place
C4_Witness ==
  /\ FetchFailed
  /\ pc = "returned"
  /\ outFile = File(PreviousOutput)

\* the entry made of the locals l
C5_EntryOf(l) ==
  Entry(l.title, l.start_dt_utc, l.streams_list, l.logo, l.mapped_cat,
        l.effective_category_src, has_pytz)
\* the pass the state shows leaves the same locals, and the same record if it
\* appends one, when the clock reads now
C5_SameAt(now) ==
  /\ LoopBody(loc, day, category_src, game, now, has_pytz) = loc
  /\ loc.outcome = "append_313" => LastEntry = C5_EntryOf(loc)
\* the day label yields a month, a day of the month and a year
C5_Dated(day_str) ==
  /\ DayFields(day_str).month # 0
  /\ DayFields(day_str).daynum # 0
  /\ DayFields(day_str).year # 0

\* C5, as the specification states it: what a pass of the loop body leaves,
\* and with it every field of the record it appends, is the same whatever the
\* current date is.
C5_AsStated == Passed => \A now \in UtcNows : C5_SameAt(now)

\* C5, amended: what a pass leaves, and every field of the record it appends,
\* is the same whatever the current date is, provided the day label of the
\* event yields a month, a day of the month and a year.
C5_DatedIsDeterministic ==
  Passed /\ C5_Dated(day) => \A now \in UtcNows : C5_SameAt(now)

\* a record was appended under a day label that holds the whole date
C5_Witness ==
  /\ Appended
  /\ C5_Dated(day)
  /\ LastEntry.eventStart = "2024-01-01T20:00:00Z"

C6_TourToken(title) == SearchWord(title, "atp") \/ SearchWord(title, "wta")

\* C6: a step adds a record for an event of the category Tennis, or a record
\* whose effective label is Tennis or whose category is 'tennis', only if the
\* raw title holds ATP or WTA as a word of its own.
C6_TennisNeedsTour ==
  [][Added /\ (\/ category_src' = "Tennis"
               \/ loc'.effective_category_src = "Tennis"
               \/ NewEntry.category = "tennis")
       => C6_TourToken(game'.event.val)]_vars

\* a Tennis event with a usable channel and ATP only inside a longer word was
\* passed over
C6_Witness ==
  /\ Passed
  /\ category_src = "Tennis"
  /\ game = GoodGames[12]
  /\ get_stream_url(game.channels.items[1]) # ""
  /\ loc.outcome = "continue_278"

C7_Clean(text) == ~Contains(Lower(text), "college") /\ ~Contains(Lower(text), "youth")
C7_Survives(ch, title, label) ==
  /\ ch.type = "dict"
  /\ Truthy(ch.channel_id)
  /\ C7_Clean(ChannelName(ch) \o " " \o title \o " " \o label)
RECURSIVE C7_Survivors(_, _, _)
C7_Survivors(items, title, label) ==
  IF items = <<>> THEN <<>>
  ELSE (IF C7_Survives(Head(items), title, label) THEN <<Head(items)>> ELSE <<>>)
         \o C7_Survivors(Tail(items), title, label)
C7_StreamsAre(streams, chans) ==
  /\ Len(streams) = Len(chans)
  /\ \A i \in 1..Len(chans) :
       streams[i] = [url |-> get_stream_url(chans[i]), title |-> ChannelName(chans[i])]

\* C7: every record holds at least one stream; an event that passed the
\* category and date steps is dropped exactly when none of its channels has a
\* usable identifier and a text (display name, title, effective label) free of
\* "college" and "youth", and is recorded otherwise with the streams of exactly
\* the channels that do, in their order.
C7_StreamsAreSurvivors ==
  /\ \A i \in 1..Len(dynamic_channels) : dynamic_channels[i].streams # <<>>
  /\ Passed /\ loc.outcome \in {"continue_302", "append_313"} =>
       /\ loc.outcome = "continue_302" <=>
            C7_Survivors(ChannelItems(game), loc.title, loc.effective_category_src) = <<>>
       /\ loc.outcome = "append_313" =>
            C7_StreamsAre(LastEntry.streams,
                          C7_Survivors(ChannelItems(game), loc.title,
                                       loc.effective_category_src))

\* the event whose only channel is "Youth TV" was dropped, after an event
\* that kept two of its five channels
C7_Witness ==
  /\ Passed
  /\ game = GoodGames[3]
  /\ loc.outcome = "continue_302"
  /\ dynamic_channels # <<>>
  /\ LastEntry.name = "45: AS Roma vs FC Internazionale"
  /\ Len(LastEntry.streams) = 2

C8_Markers ==
  << [label |-> "UEFA Champions League", category |-> "coppe"],
     [label |-> "UEFA Europa League", category |-> "coppe"],
     [label |-> "Conference League", category |-> "coppe"],
     [label |-> "Coppa Italia", category |-> "coppe"],
     [label |-> "Italy - Serie A", category |-> "seriea"],
     [label |-> "Italy - Serie B", category |-> "serieb"],
     [label |-> "Italy - Serie C", category |-> "seriec"] >>
C8_Hits(title) == { k \in 1..Len(C8_Markers) : InlinePatternMatches(k, title) }
C8_First(title) == C8_Markers[CHOOSE h \in C8_Hits(title) : \A g \in C8_Hits(title) : h <= g]

\* C8: an event of a Soccer container whose title matches no marker is
\* passed over; one whose title matches takes the label of the first marker
\* that matches, in the order Champions League, Europa League, Conference
\* League, Coppa Italia, Serie A, Serie B, Serie C, and its record takes its
\* category, its logo and the head of its description from that label.
C8_FirstMarkerWins ==
  Titled265 /\ Lower(category_src) = "soccer" =>
    IF C8_Hits(loc.raw_event) = {}
      THEN loc.outcome = "continue_271"
      ELSE /\ loc.effective_category_src = C8_First(loc.raw_event).label
           /\ loc.outcome = "append_313" =>
                /\ LastEntry.category = C8_First(loc.raw_event).category
                /\ LastEntry.logo = build_logo(C8_First(loc.raw_event).label, loc.raw_event)
                /\ MatchAt(LastEntry.description,
                           C8_First(loc.raw_event).label \o " ", 1)

\* a Soccer title that holds a cup marker and a Serie marker was recorded as a
\* cup event
C8_Witness ==
  /\ Appended
  /\ Lower(category_src) = "soccer"
  /\ loc.raw_event = "Coppa Italia: Italy - Serie B playoff"
  /\ LastEntry.category = "coppe"
  /\ LastEntry.logo = LOGO_BASE \o "/Coppa_Italia.png"

\* C9: the list only grows, one record at its end at a time, the record of
\* the event the step examines; included counts its records and never exceeds
\* total_events; the file written holds the list as it stands and the counts
\* printed with it are those two.
C9_AppendOnly ==
  /\ [](included = Len(dynamic_channels) /\ included <= total_events)
  /\ [][\/ dynamic_channels' = dynamic_channels
        \/ /\ Len(dynamic_channels') = Len(dynamic_channels) + 1
           /\ SubSeq(dynamic_channels', 1, Len(dynamic_channels)) = dynamic_channels
           /\ NewEntry.name = extract_event_title(RawEvent(game'))
           /\ total_events' = total_events + 1]_vars
  /\ [][outFile'.state = "written" /\ outFile' # outFile =>
          /\ outFile'.data = dynamic_channels
          /\ printed'[Len(printed')].included = Len(outFile'.data)
          /\ printed'[Len(printed')].total = total_events]_vars

\* a list of several records, fewer than the events examined, was written
C9_Witness ==
  /\ pc = "returned"
  /\ outFile.state = "written"
  /\ Len(outFile.data) >= 3
  /\ outFile.data = dynamic_channels
  /\ outFile.data[1].name = "Juventus vs Inter"
  /\ outFile.data[2].name = "45: AS Roma vs FC Internazionale"
  /\ included < total_events

\* C10: a Serie A or Serie B record has a team logo only when the split of
\* the title on "vs" and " - " yields exactly two segments.
C10_LogoNeedsTwoSegments ==
  Appended /\ loc.effective_category_src \in {"Italy - Serie A", "Italy - Serie B"} =>
    (LastEntry.logo # "" => Len(MatchSplit(loc.raw_event, 1, 1)) = 2)

====
